---- MODULE Spec2Model ----
(***************************************************************************)
(* JsonBufWriter: a streaming JSON writer into a fixed, caller-provided    *)
(* byte region.  The writer object is modelled field by field; every       *)
(* private helper of the implementation is an operator from a writer       *)
(* record to a result record [w, ok] (the writer after the helper ran and  *)
(* the boolean it returned), and every public method is one action.        *)
(* Bytes are their numeric codes; buffer_[i] of the source is buffer_[i+1] *)
(* here, sequences being 1-based.  In a writer record the field stack is   *)
(* the array Frame stack_[MAX_DEPTH] up to the last slot ever stored       *)
(* (stack_[i] of the source is stack[i+1] here): a close or a reset leaves *)
(* the slots it abandons as they are, and a slot never stored holds        *)
(* nothing that can be read.  The state variable stack_ keeps the live     *)
(* slots 0 .. depth_ - 1 only: every read of the array is of slot          *)
(* depth_ - 1 with depth_ > 0 and openContainer stores all three fields of *)
(* slot depth_ before it raises depth_, so what a slot at or above depth_  *)
(* holds is never read.  The specification RstSpec checks just that, on a  *)
(* writer record (twin) that keeps the abandoned slots.                    *)
(***************************************************************************)
EXTENDS Integers, Sequences, FiniteSets, TLC

VARIABLES
    buffer_,         \* the bytes of the bound region, all capacity_ of them
    bufNull,         \* buffer_ == nullptr
    capacity_,
    length_,
    hasError_,
    depth_,
    floatPrecision_,
    expectValue_,    \* root-level flag
    stack_,          \* the live frames stack_[0 .. depth_), innermost last
    outside,         \* a byte was stored at an index >= capacity_, past the region
    lastOp,          \* the public method called last
    lastRet,         \* what it returned (TRUE for the void methods)
    arg,             \* the bytes that call was given to write
    pre,             \* size(), depth, latch and precision as they were before that call
    out,             \* finalize's out-parameters after that call
    usedRaw,         \* raw() was called since construction or the last reset
    rootWritten,     \* a value or container open succeeded at depth 0 since then
    ref,             \* the document the calls made so far describe, see RefInit
    twin             \* RstSpec: a second writer, see RstInit

vars == <<buffer_, bufNull, capacity_, length_, hasError_, depth_,
          floatPrecision_, expectValue_, stack_, outside, lastOp, lastRet, arg, pre,
          out, usedRaw, rootWritten, ref, twin>>

-----------------------------------------------------------------------------
\* Program constants

MAX_DEPTH == 8

DEFAULT_FLOAT_PRECISION == 3

\* Largest value of the uint8_t that setFloatPrecision takes.
UINT8_MAX == 255

\* Bounds of the model

\* Largest capacity of a region on which every kind of call is issued.
MaxCap == 4

\* Width in bits of size_t in the model: wide enough for the longest
\* rendering snprintf can report, "%.255f" of a small double.
SizeBits == 9

SizeMod == 2 ^ SizeBits

\* Capacity of the region on which the nesting limit is exercised: room for
\* MAX_DEPTH opening tokens and for the token of one more open.
DeepCap == MAX_DEPTH + 1

\* Byte the caller's region holds before the writer touches it.
FillByte == 170

-----------------------------------------------------------------------------
\* Frames and the writer record

Frame(isObject, isFirst, expectValue) ==
    [isObject |-> isObject, isFirst |-> isFirst, expectValue |-> expectValue]

Self ==
    [buffer |-> buffer_, bufNull |-> bufNull, capacity |-> capacity_,
     length |-> length_, hasError |-> hasError_, depth |-> depth_,
     floatPrecision |-> floatPrecision_, expectValue |-> expectValue_,
     stack |-> stack_, outside |-> outside]

R(w, ok) == [w |-> w, ok |-> ok]

-----------------------------------------------------------------------------
\* Buffer checks

ensureCapacity(w, additionalBytes) ==
    ((w.length + additionalBytes) % SizeMod) <= w.capacity

\* setError that returns failure without latching.
setError_NoLatch(w) == R(w, FALSE)

setError(w) == R([w EXCEPT !.hasError = TRUE], FALSE)

\* State queries

inAnyContainer(w) == w.depth > 0

inObject(w) == inAnyContainer(w) /\ w.stack[w.depth].isObject

currentFrame(w) == w.stack[w.depth]

\* currentFrame().<field> = v
setFrame(w, field, v) ==
    [w EXCEPT !.stack[w.depth] = [@ EXCEPT ![field] = v]]

\* stack_[depth_] = frame, the slot having been stored before or not.
\* A push that assigns only isObject, leaving the other flags of the slot as
\* an earlier frame left them.
storeFrame_KeepStaleFlags(w, frame) ==
    IF w.depth + 1 <= Len(w.stack)
    THEN [w EXCEPT !.stack[w.depth + 1].isObject = frame.isObject]
    ELSE [w EXCEPT !.stack = Append(w.stack, frame)]

storeFrame(w, frame) ==
    IF w.depth + 1 <= Len(w.stack)
    THEN [w EXCEPT !.stack[w.depth + 1] = frame]
    ELSE [w EXCEPT !.stack = Append(w.stack, frame)]

-----------------------------------------------------------------------------
\* Output helpers

\* appendChar that stores over the last committed byte when the region is full.
appendChar_OverwriteLast(w, character) ==
    IF w.hasError THEN setError(w)
    ELSE IF ~ensureCapacity(w, 1)
         THEN IF w.length > 0
              THEN R([w EXCEPT !.buffer[w.length] = character], TRUE)
              ELSE setError(w)
         ELSE R([w EXCEPT !.buffer[w.length + 1] = character,
                          !.length = w.length + 1], TRUE)

appendChar(w, character) ==
    IF w.hasError \/ ~ensureCapacity(w, 1)
    THEN setError(w)
    ELSE R([w EXCEPT !.buffer[w.length + 1] = character,
                     !.length = w.length + 1], TRUE)

\* The copy loop shared by appendString and writeRawData: n bytes of str to
\* buffer_[length_++], length_ being a size_t.  The k-th store goes to index
\* (length_ + k - 1) mod 2^w; index i - 1 of the region receives the store
\* number ((i - 1 - length_) mod 2^w) + 1 when there are that many.
CopyBytes(w, str, n) ==
    [w EXCEPT !.buffer = [i \in 1..Len(w.buffer) |->
                             LET k == ((i - 1 - w.length) % SizeMod) + 1
                             IN  IF k <= n THEN str[k] ELSE w.buffer[i]],
              !.length = (w.length + n) % SizeMod,
              !.outside = @ \/ \E k \in 1..n :
                                   (w.length + k - 1) % SizeMod >= w.capacity]

appendString(w, str, length) ==
    IF w.hasError \/ ~ensureCapacity(w, length)
    THEN setError(w)
    ELSE R(CopyBytes(w, str, length), TRUE)

writeRawData(w, data, length) ==
    IF w.hasError \/ ~ensureCapacity(w, length)
    THEN setError(w)
    ELSE R(CopyBytes(w, data, length), TRUE)

hexDigits == <<48, 49, 50, 51, 52, 53, 54, 55, 56, 57, 97, 98, 99, 100, 101, 102>>

\* escapeCharacter with uppercase hex digits in \u00XX.
escapeCharacter_UpperHex(w, c) ==
    CASE c = 34 -> appendString(w, <<92, 34>>, 2)
      [] c = 92 -> appendString(w, <<92, 92>>, 2)
      [] c = 8  -> appendString(w, <<92, 98>>, 2)
      [] c = 12 -> appendString(w, <<92, 102>>, 2)
      [] c = 10 -> appendString(w, <<92, 110>>, 2)
      [] c = 13 -> appendString(w, <<92, 114>>, 2)
      [] c = 9  -> appendString(w, <<92, 116>>, 2)
      [] OTHER  ->
            IF c < 32
            THEN appendString(w, <<92, 117, 48, 48,
                                   <<48, 49, 50, 51, 52, 53, 54, 55, 56, 57,
                                     65, 66, 67, 68, 69, 70>>[((c \div 16) % 16) + 1],
                                   <<48, 49, 50, 51, 52, 53, 54, 55, 56, 57,
                                     65, 66, 67, 68, 69, 70>>[(c % 16) + 1]>>, 6)
            ELSE appendChar(w, c)

\* escapeCharacter that copies a backslash as it is.
escapeCharacter_BackslashVerbatim(w, c) ==
    CASE c = 34 -> appendString(w, <<92, 34>>, 2)
      [] c = 8  -> appendString(w, <<92, 98>>, 2)
      [] c = 12 -> appendString(w, <<92, 102>>, 2)
      [] c = 10 -> appendString(w, <<92, 110>>, 2)
      [] c = 13 -> appendString(w, <<92, 114>>, 2)
      [] c = 9  -> appendString(w, <<92, 116>>, 2)
      [] OTHER  ->
            IF c < 32
            THEN appendString(w, <<92, 117, 48, 48,
                                   hexDigits[((c \div 16) % 16) + 1],
                                   hexDigits[(c % 16) + 1]>>, 6)
            ELSE appendChar(w, c)

escapeCharacter(w, c) ==
    CASE c = 34 -> appendString(w, <<92, 34>>, 2)      \* '"'
      [] c = 92 -> appendString(w, <<92, 92>>, 2)      \* '\\'
      [] c = 8  -> appendString(w, <<92, 98>>, 2)      \* '\b'
      [] c = 12 -> appendString(w, <<92, 102>>, 2)     \* '\f'
      [] c = 10 -> appendString(w, <<92, 110>>, 2)     \* '\n'
      [] c = 13 -> appendString(w, <<92, 114>>, 2)     \* '\r'
      [] c = 9  -> appendString(w, <<92, 116>>, 2)     \* '\t'
      [] OTHER  ->
            IF c < 32
            THEN appendString(w, <<92, 117, 48, 48,
                                   hexDigits[((c \div 16) % 16) + 1],
                                   hexDigits[(c % 16) + 1]>>, 6)
            ELSE appendChar(w, c)

updateStateAfterValue(w) ==
    IF inAnyContainer(w)
    THEN IF currentFrame(w).isObject
         THEN setFrame(w, "expectValue", FALSE)
         ELSE w
    ELSE [w EXCEPT !.expectValue = FALSE]

\* The escaping loop of writeString and writeStringWithLength: bytes i..n of
\* p, stopping at the first byte that does not fit.
RECURSIVE escapeLoop(_, _, _, _)
escapeLoop(w, p, i, n) ==
    IF i > n THEN R(w, TRUE)
    ELSE LET e == escapeCharacter(w, p[i])
         IN  IF ~e.ok THEN e ELSE escapeLoop(e.w, p, i + 1, n)

\* Number of bytes of a C string before its terminating zero byte.  The
\* terminator follows the bytes given when none of them is zero.
RECURSIVE strlenFrom(_, _)
strlenFrom(str, i) ==
    IF i > Len(str) \/ str[i] = 0 THEN i - 1 ELSE strlenFrom(str, i + 1)

strlen(str) == strlenFrom(str, 1)

writeStringWithLength(w, str, length) ==
    LET q1 == appendChar(w, 34)
    IN  IF ~q1.ok THEN q1
        ELSE LET e == escapeLoop(q1.w, str, 1, length)
             IN  IF ~e.ok THEN e
                 ELSE LET q2 == appendChar(e.w, 34)
                      IN  IF ~q2.ok THEN q2
                          ELSE R(updateStateAfterValue(q2.w), TRUE)

\* for (p = str; *p; ++p): the same loop, ended by the zero byte.
writeString(w, str) ==
    LET q1 == appendChar(w, 34)
    IN  IF ~q1.ok THEN q1
        ELSE LET e == escapeLoop(q1.w, str, 1, strlen(str))
             IN  IF ~e.ok THEN e
                 ELSE LET q2 == appendChar(e.w, 34)
                      IN  IF ~q2.ok THEN q2
                          ELSE R(updateStateAfterValue(q2.w), TRUE)

\* The comma step that does not look at isFirst.
commaUnlessFirst_Always(w) ==
    LET a == appendChar(w, 44)
    IN  IF ~a.ok THEN a ELSE R(setFrame(a.w, "isFirst", FALSE), TRUE)

\* if (!frame.isFirst && !appendChar(',')) return false; frame.isFirst = false;
commaUnlessFirst(w) ==
    IF ~currentFrame(w).isFirst
    THEN LET a == appendChar(w, 44)
         IN  IF ~a.ok THEN a ELSE R(setFrame(a.w, "isFirst", FALSE), TRUE)
    ELSE R(setFrame(w, "isFirst", FALSE), TRUE)

\* addCommaIfNeeded without its look at the latch.
addCommaIfNeeded_NoLatchCheck(w) ==
    IF inAnyContainer(w)
    THEN IF currentFrame(w).isObject
         THEN IF ~currentFrame(w).expectValue
              THEN commaUnlessFirst(w)
              ELSE R(w, TRUE)
         ELSE commaUnlessFirst(w)
    ELSE IF w.length # 0 THEN setError(w) ELSE R(w, TRUE)

addCommaIfNeeded(w) ==
    IF w.hasError THEN R(w, FALSE)
    ELSE IF inAnyContainer(w)
         THEN IF currentFrame(w).isObject
              THEN IF ~currentFrame(w).expectValue
                   THEN commaUnlessFirst(w)
                   ELSE R(w, TRUE)
              ELSE commaUnlessFirst(w)
         ELSE IF w.length # 0 THEN setError(w) ELSE R(w, TRUE)

-----------------------------------------------------------------------------
\* Format helpers

\* What snprintf(buffer_ + length_, remaining, ...) stores for a rendering
\* text: nothing when remaining is 0, else the first remaining - 1 bytes of
\* the text that exist, then a terminating zero byte.
snprintfInto(w, remaining, text) ==
    IF remaining = 0 THEN w
    ELSE LET k == IF Len(text) < remaining - 1 THEN Len(text) ELSE remaining - 1
         IN  [w EXCEPT !.buffer = [i \in 1..Len(w.buffer) |->
                 IF i > w.length /\ i <= w.length + k THEN text[i - w.length]
                 ELSE IF i = w.length + k + 1 THEN 0
                 ELSE w.buffer[i]]]

remainingOf(w) == IF w.capacity > w.length THEN w.capacity - w.length ELSE 0

\* formatWithVArgs that trusts vsnprintf's result without the capacity check.
formatWithVArgs_NoFitCheck(w, text) ==
    IF w.bufNull THEN setError(w)
    ELSE LET w1 == snprintfInto(w, remainingOf(w), text)
         IN  R([w1 EXCEPT !.length = w1.length + Len(text)], TRUE)

\* text is what the format renders; its length is vsnprintf's result.
formatWithVArgs(w, text) ==
    IF w.bufNull THEN setError(w)
    ELSE LET w1 == snprintfInto(w, remainingOf(w), text)
             result == Len(text)
         IN  IF result < 0 THEN setError(w1)
             ELSE IF ~ensureCapacity(w1, result) THEN setError(w1)
             ELSE R([w1 EXCEPT !.length = w1.length + result], TRUE)

\* Returns [w, result]: the int the source returns.
formatFloat(w, text) ==
    IF w.bufNull THEN [w |-> w, result |-> -1]
    ELSE LET w1 == snprintfInto(w, remainingOf(w), text)
             result == Len(text)
         IN  IF result <= 0 THEN [w |-> w1, result |-> -1]
             ELSE IF ~ensureCapacity(w1, result)
                  THEN [w |-> [w1 EXCEPT !.hasError = TRUE], result |-> -1]
                  ELSE [w |-> [w1 EXCEPT !.length = w1.length + result],
                        result |-> result]

writeNumber(w, text) ==
    LET c == addCommaIfNeeded(w)
    IN  IF ~c.ok THEN c
        ELSE LET f == formatWithVArgs(c.w, text)
             IN  R(updateStateAfterValue(f.w), f.ok)

\* writeFloat that passes formatFloat's failure on without setError.
writeFloat_NoSetError(w, text) ==
    LET c == addCommaIfNeeded(w)
    IN  IF ~c.ok THEN c
        ELSE LET f == formatFloat(c.w, text)
             IN  IF f.result < 0 THEN R(f.w, FALSE)
                 ELSE R(updateStateAfterValue(f.w), TRUE)

writeFloat(w, text) ==
    LET c == addCommaIfNeeded(w)
    IN  IF ~c.ok THEN c
        ELSE LET f == formatFloat(c.w, text)
             IN  IF f.result < 0 THEN setError(f.w)
                 ELSE R(updateStateAfterValue(f.w), TRUE)

-----------------------------------------------------------------------------
\* What the platform's printf renders

RECURSIVE digitsOf(_)
digitsOf(n) ==
    IF n < 10 THEN <<48 + n>> ELSE Append(digitsOf(n \div 10), 48 + (n % 10))

\* "%ld", "%lu", "%lld", "%llu": canonical decimal, '-' only when negative.
renderInteger(n) == IF n < 0 THEN <<45>> \o digitsOf(-n) ELSE digitsOf(n)

zeros(n) == [i \in 1..n |-> 48]

\* n / d rounded to an integer, a tie going to the even neighbour.
roundHalfEven(n, d) ==
    LET q == n \div d
        r == n % d
    IN  IF 2 * r < d THEN q
        ELSE IF 2 * r > d THEN q + 1
        ELSE IF q % 2 = 0 THEN q ELSE q + 1

\* "%.<precision>f" of the double quarters / 4 (a double holds it exactly).
renderFloat(precision, quarters) ==
    LET a        == IF quarters < 0 THEN -quarters ELSE quarters
        sign     == IF quarters < 0 THEN <<45>> ELSE <<>>
        \* the value scaled by 10^p, p = min(precision, 2): two decimals hold
        \* a multiple of 1/4 exactly, the further ones are zeros
        scaled   == CASE precision = 0 -> roundHalfEven(a, 4)
                      [] precision = 1 -> roundHalfEven(a * 10, 4)
                      [] OTHER         -> a * 25
        p        == IF precision < 2 THEN precision ELSE 2
        d        == digitsOf(scaled)
        padded   == IF Len(d) < p + 1 THEN zeros(p + 1 - Len(d)) \o d ELSE d
        intPart  == SubSeq(padded, 1, Len(padded) - p)
        fracPart == SubSeq(padded, Len(padded) - p + 1, Len(padded))
    IN  IF precision = 0 THEN sign \o intPart
        ELSE sign \o intPart \o <<46>> \o fracPart \o zeros(precision - p)

-----------------------------------------------------------------------------
\* Internal container operations

\* openContainer whose depth test is off by one (> for >=).
openContainer_DepthOffByOne(w, openChar, isObject) ==
    IF w.hasError \/ (w.depth = 0 /\ w.length # 0)
    THEN setError(w)
    ELSE LET c == addCommaIfNeeded(w)
         IN  IF ~c.ok THEN c
             ELSE LET a == appendChar(c.w, openChar)
                  IN  IF ~a.ok THEN a
                      ELSE IF a.w.depth > MAX_DEPTH THEN setError(a.w)
                      ELSE R([storeFrame(a.w, Frame(isObject, TRUE, FALSE))
                                 EXCEPT !.depth = a.w.depth + 1,
                                        !.expectValue = FALSE], TRUE)

\* openContainer that tests the depth before it appends anything.
openContainer_DepthCheckFirst(w, openChar, isObject) ==
    IF w.hasError \/ (w.depth = 0 /\ w.length # 0) \/ w.depth >= MAX_DEPTH
    THEN setError(w)
    ELSE LET c == addCommaIfNeeded(w)
         IN  IF ~c.ok THEN c
             ELSE LET a == appendChar(c.w, openChar)
                  IN  IF ~a.ok THEN a
                      ELSE R([storeFrame(a.w, Frame(isObject, TRUE, FALSE))
                                 EXCEPT !.depth = a.w.depth + 1,
                                        !.expectValue = FALSE], TRUE)

openContainer(w, openChar, isObject) ==
    IF w.hasError \/ (w.depth = 0 /\ w.length # 0)
    THEN setError(w)
    ELSE LET c == addCommaIfNeeded(w)
         IN  IF ~c.ok THEN c
             ELSE LET a == appendChar(c.w, openChar)
                  IN  IF ~a.ok THEN a
                      ELSE IF a.w.depth >= MAX_DEPTH THEN setError(a.w)
                      ELSE R([storeFrame(a.w, Frame(isObject, TRUE, FALSE))
                                 EXCEPT !.depth = a.w.depth + 1,
                                        !.expectValue = FALSE], TRUE)

\* closeContainer that does not compare the container's kind.
closeContainer_NoKindCheck(w, closeChar, isObject) ==
    IF w.hasError \/ ~inAnyContainer(w)
    THEN setError(w)
    ELSE LET a == appendChar(w, closeChar)
         IN  IF ~a.ok THEN a
             ELSE LET w1 == [a.w EXCEPT !.depth = a.w.depth - 1]
                  IN  IF inAnyContainer(w1)
                      THEN R(setFrame(w1, "expectValue", FALSE), TRUE)
                      ELSE R([w1 EXCEPT !.expectValue = FALSE], TRUE)

\* closeContainer that leaves the parent's flags as they are.
closeContainer_KeepParentFlag(w, closeChar, isObject) ==
    IF w.hasError \/ ~inAnyContainer(w) \/ currentFrame(w).isObject # isObject
    THEN setError(w)
    ELSE LET a == appendChar(w, closeChar)
         IN  IF ~a.ok THEN a
             ELSE R([a.w EXCEPT !.depth = a.w.depth - 1], TRUE)

closeContainer(w, closeChar, isObject) ==
    IF w.hasError \/ ~inAnyContainer(w) \/ currentFrame(w).isObject # isObject
    THEN setError(w)
    ELSE LET a == appendChar(w, closeChar)
         IN  IF ~a.ok THEN a
             ELSE LET w1 == [a.w EXCEPT !.depth = a.w.depth - 1]
                  IN  IF inAnyContainer(w1)
                      THEN R(setFrame(w1, "expectValue", FALSE), TRUE)
                      ELSE R([w1 EXCEPT !.expectValue = FALSE], TRUE)

-----------------------------------------------------------------------------
\* The public methods, as functions of the writer

beginObject(w) == openContainer(w, 123, TRUE)

beginArray(w) == openContainer(w, 91, FALSE)

endObject(w) == closeContainer(w, 125, TRUE)

endArray(w) == closeContainer(w, 93, FALSE)

\* key that accepts any open container, an array too.
key_AnyContainer(w, k) ==
    IF w.hasError \/ ~inAnyContainer(w)
    THEN setError(w)
    ELSE LET a == IF ~currentFrame(w).isFirst THEN appendChar(w, 44) ELSE R(w, TRUE)
         IN  IF ~a.ok THEN a
             ELSE LET s == writeString(setFrame(a.w, "isFirst", FALSE), k)
                  IN  IF ~s.ok THEN s
                      ELSE LET c == appendChar(s.w, 58)
                           IN  IF ~c.ok THEN c
                               ELSE R(setFrame(c.w, "expectValue", TRUE), TRUE)

key(w, k) ==
    IF w.hasError \/ ~inObject(w)
    THEN setError(w)
    ELSE LET a == IF ~currentFrame(w).isFirst THEN appendChar(w, 44) ELSE R(w, TRUE)
         IN  IF ~a.ok THEN a
             ELSE LET s == writeString(setFrame(a.w, "isFirst", FALSE), k)
                  IN  IF ~s.ok THEN s
                      ELSE LET c == appendChar(s.w, 58)
                           IN  IF ~c.ok THEN c
                               ELSE R(setFrame(c.w, "expectValue", TRUE), TRUE)

valueString(w, str) ==
    LET c == addCommaIfNeeded(w)
    IN  IF ~c.ok THEN c ELSE writeString(c.w, str)

valueStringLength(w, str, length) ==
    LET c == addCommaIfNeeded(w)
    IN  IF ~c.ok THEN c ELSE writeStringWithLength(c.w, str, length)

valueBool(w, boolean) ==
    LET c == addCommaIfNeeded(w)
    IN  IF ~c.ok THEN c
        ELSE LET d == IF boolean
                      THEN writeRawData(c.w, <<116, 114, 117, 101>>, 4)
                      ELSE writeRawData(c.w, <<102, 97, 108, 115, 101>>, 5)
             IN  IF ~d.ok THEN d ELSE R(updateStateAfterValue(d.w), TRUE)

valueInteger(w, integer) == writeNumber(w, renderInteger(integer))

valueFloat(w, quarters) ==
    writeFloat(w, renderFloat(w.floatPrecision, quarters))

null(w) ==
    LET c == addCommaIfNeeded(w)
    IN  IF ~c.ok THEN c
        ELSE LET d == writeRawData(c.w, <<110, 117, 108, 108>>, 4)
             IN  IF ~d.ok THEN d ELSE R(updateStateAfterValue(d.w), TRUE)

raw(w, json, length) ==
    LET c == addCommaIfNeeded(w)
    IN  IF ~c.ok THEN c
        ELSE LET d == writeRawData(c.w, json, length)
             IN  IF ~d.ok THEN d ELSE R(updateStateAfterValue(d.w), TRUE)

\* finalize that does not look at the open containers.
finalize_IgnoreDepth(w) == ~w.hasError

\* The bool finalize returns.
finalize(w) == ~(w.hasError \/ w.depth # 0)

\* reset(buf, capacity), the region given as its bytes (none for nullptr).
\* stack_ is not assigned.
reset(w, region, isNull) ==
    [w EXCEPT !.buffer = region, !.bufNull = isNull,
              !.capacity = Len(region), !.length = 0,
              !.hasError = FALSE, !.depth = 0,
              !.expectValue = FALSE,
              !.floatPrecision = DEFAULT_FLOAT_PRECISION]

\* setFloatPrecision(digits)
setFloatPrecision(w, digits) == [w EXCEPT !.floatPrecision = digits]

\* A pointer into the bound region: buffer_ + offset, or nullptr.
Pointer(w, offset) == [null |-> w.bufNull, offset |-> offset]

\* The caller's output and length variables: not stored yet.
NoOut == [set |-> FALSE, output |-> [null |-> TRUE, offset |-> 0], length |-> 0]

\* finalize that latches the error when it refuses.
finalizeCall_LatchOnFailure(w) ==
    IF ~finalize(w)
    THEN [w |-> [w EXCEPT !.hasError = TRUE], ok |-> FALSE, out |-> NoOut]
    ELSE [w |-> w, ok |-> TRUE,
          out |-> [set |-> TRUE, output |-> Pointer(w, 0), length |-> w.length]]

\* The whole call: the writer it leaves, what it returns and what it stores
\* through its two reference parameters (nothing when it refuses).
finalizeCall(w) ==
    IF ~finalize(w)
    THEN [w |-> w, ok |-> FALSE, out |-> NoOut]
    ELSE [w |-> w, ok |-> TRUE,
          out |-> [set |-> TRUE, output |-> Pointer(w, 0), length |-> w.length]]

ok(w) == ~w.hasError

size(w) == w.length

-----------------------------------------------------------------------------
\* The document a call sequence describes.  This is no part of the writer: it
\* is the reading of "structurally well-formed call sequence" and of "the JSON
\* text of that structure" that the properties below are stated against.
\*   wf    every call so far was allowed where it was made: a value or a
\*         container open at the empty root, in an array, or right after a key;
\*         a key in an object that is not waiting for a value; a close of the
\*         innermost container by its own kind, not while a key waits for its
\*         value; at most MAX_DEPTH containers open; nothing after the root
\*         value is complete; no raw fragment; and the text fits the region;
\*   open  the containers open, innermost last: kind, members so far, and
\*         whether a key waits for its value;
\*   text  the whitespace-free JSON text of what was described so far;
\*   done  the single root value is complete.

RefInit == [wf |-> TRUE, open |-> <<>>, text |-> <<>>, done |-> FALSE]

RefDead == [wf |-> FALSE, open |-> <<>>, text |-> <<>>, done |-> FALSE]

\* The JSON text of one string byte, from the grammar's escape table.
RefEscape(c) ==
    CASE c = 34 -> <<92, 34>>
      [] c = 92 -> <<92, 92>>
      [] c = 8  -> <<92, 98>>
      [] c = 12 -> <<92, 102>>
      [] c = 10 -> <<92, 110>>
      [] c = 13 -> <<92, 114>>
      [] c = 9  -> <<92, 116>>
      [] c < 32 -> <<92, 117, 48, 48,
                     hexDigits[(c \div 16) + 1], hexDigits[(c % 16) + 1]>>
      [] OTHER  -> <<c>>

RECURSIVE RefEscapeAll(_)
RefEscapeAll(bytes) ==
    IF bytes = <<>> THEN <<>>
    ELSE RefEscape(Head(bytes)) \o RefEscapeAll(Tail(bytes))

RefQuote(bytes) == <<34>> \o RefEscapeAll(bytes) \o <<34>>

RefTop(r) == r.open[Len(r.open)]

\* A value or a container open may come here.
RefValueAllowed(r) ==
    /\ r.wf
    /\ ~r.done
    /\ r.open # <<>> => (RefTop(r).isObject => RefTop(r).pending)

\* The text r.text followed by a separator, if one is due, and by token.
RefAppendMember(r, token) ==
    IF r.open # <<>> /\ ~RefTop(r).isObject /\ RefTop(r).members > 0
    THEN r.text \o <<44>> \o token
    ELSE r.text \o token

\* The innermost container has one more member and no key waiting.
RefCounted(open) ==
    IF open = <<>> THEN open
    ELSE [open EXCEPT ![Len(open)] =
             [@ EXCEPT !.members = @ + 1, !.pending = FALSE]]

RefValue(r, token) ==
    IF ~RefValueAllowed(r) THEN RefDead
    ELSE [wf |-> TRUE, open |-> RefCounted(r.open),
          text |-> RefAppendMember(r, token), done |-> r.open = <<>>]

RefOpen(r, isObject) ==
    IF ~RefValueAllowed(r) \/ Len(r.open) >= MAX_DEPTH THEN RefDead
    ELSE [wf |-> TRUE,
          open |-> Append(RefCounted(r.open),
                          [isObject |-> isObject, members |-> 0, pending |-> FALSE]),
          text |-> RefAppendMember(r, IF isObject THEN <<123>> ELSE <<91>>),
          done |-> FALSE]

RefClose(r, isObject) ==
    IF ~r.wf \/ r.open = <<>> THEN RefDead
    ELSE IF RefTop(r).isObject # isObject \/ RefTop(r).pending THEN RefDead
    ELSE [wf |-> TRUE, open |-> SubSeq(r.open, 1, Len(r.open) - 1),
          text |-> r.text \o (IF isObject THEN <<125>> ELSE <<93>>),
          done |-> Len(r.open) = 1]

RefKey(r, k) ==
    IF ~r.wf \/ r.open = <<>> THEN RefDead
    ELSE IF ~RefTop(r).isObject \/ RefTop(r).pending THEN RefDead
    ELSE [wf |-> TRUE,
          open |-> [r.open EXCEPT ![Len(r.open)] = [@ EXCEPT !.pending = TRUE]],
          text |-> r.text \o (IF RefTop(r).members > 0 THEN <<44>> ELSE <<>>)
                          \o RefQuote(k) \o <<58>>,
          done |-> FALSE]

\* The bytes of a C string: those before its terminating zero byte.
CStringBytes(str) == SubSeq(str, 1, strlen(str))

\* The call sequence stays well formed only while its text fits the region.
RefFits(r, capacity) == IF r.wf /\ Len(r.text) <= capacity THEN r ELSE RefDead

-----------------------------------------------------------------------------
\* The JSON grammar (RFC 8259), as a recognizer over bytes.  Each operator
\* takes the text and the index of the first byte to read and gives the index
\* after what it recognized, or 0 when the text does not continue that way.

JsonAt(s, i) == IF i >= 1 /\ i <= Len(s) THEN s[i] ELSE -1

JsonIsDigit(c) == c >= 48 /\ c <= 57

JsonIsHex(c) == JsonIsDigit(c) \/ (c >= 97 /\ c <= 102) \/ (c >= 65 /\ c <= 70)

RECURSIVE JsonDigits(_, _)
JsonDigits(s, i) == IF JsonIsDigit(JsonAt(s, i)) THEN JsonDigits(s, i + 1) ELSE i

\* number = [ "-" ] ( "0" / digit1-9 *digit ) [ "." 1*digit ] [ e [sign] 1*digit ]
JsonNumber(s, i) ==
    LET a == IF JsonAt(s, i) = 45 THEN i + 1 ELSE i
        b == IF JsonAt(s, a) = 48 THEN a + 1
             ELSE IF JsonIsDigit(JsonAt(s, a)) THEN JsonDigits(s, a) ELSE 0
        c == IF b = 0 THEN 0
             ELSE IF JsonAt(s, b) = 46
                  THEN IF JsonIsDigit(JsonAt(s, b + 1)) THEN JsonDigits(s, b + 1) ELSE 0
                  ELSE b
        e == IF JsonAt(s, c) \in {43, 45} THEN c + 1 ELSE c
    IN  IF c = 0 THEN 0
        ELSE IF JsonAt(s, c) \in {69, 101}
             THEN LET f == IF JsonAt(s, c + 1) \in {43, 45} THEN c + 2 ELSE c + 1
                  IN  IF JsonIsDigit(JsonAt(s, f)) THEN JsonDigits(s, f) ELSE 0
             ELSE c

\* The characters of a string from index i on, up to the closing quote.
RECURSIVE JsonChars(_, _)
JsonChars(s, i) ==
    LET c == JsonAt(s, i)
    IN  CASE c = 34 -> i + 1
          [] c = 92 ->
                IF JsonAt(s, i + 1) \in {34, 92, 47, 98, 102, 110, 114, 116}
                THEN JsonChars(s, i + 2)
                ELSE IF /\ JsonAt(s, i + 1) = 117
                        /\ \A k \in 2..5 : JsonIsHex(JsonAt(s, i + k))
                     THEN JsonChars(s, i + 6)
                     ELSE 0
          [] c < 32 -> 0                      \* a control byte, or the end
          [] OTHER  -> JsonChars(s, i + 1)

JsonString(s, i) == IF JsonAt(s, i) = 34 THEN JsonChars(s, i + 1) ELSE 0

JsonLiteral(s, i, word) ==
    IF \A k \in 1..Len(word) : JsonAt(s, i + k - 1) = word[k]
    THEN i + Len(word) ELSE 0

RECURSIVE JsonValue(_, _), JsonElements(_, _), JsonMembers(_, _)
JsonValue(s, i) ==
    LET c == JsonAt(s, i)
    IN  CASE c = 123 -> IF JsonAt(s, i + 1) = 125 THEN i + 2 ELSE JsonMembers(s, i + 1)
          [] c = 91  -> IF JsonAt(s, i + 1) = 93 THEN i + 2 ELSE JsonElements(s, i + 1)
          [] c = 34  -> JsonString(s, i)
          [] c = 116 -> JsonLiteral(s, i, <<116, 114, 117, 101>>)
          [] c = 102 -> JsonLiteral(s, i, <<102, 97, 108, 115, 101>>)
          [] c = 110 -> JsonLiteral(s, i, <<110, 117, 108, 108>>)
          [] OTHER   -> JsonNumber(s, i)

\* value *( "," value ) "]"
JsonElements(s, i) ==
    LET v == JsonValue(s, i)
    IN  IF v = 0 THEN 0
        ELSE IF JsonAt(s, v) = 93 THEN v + 1
        ELSE IF JsonAt(s, v) = 44 THEN JsonElements(s, v + 1)
        ELSE 0

\* string ":" value *( "," string ":" value ) "}"
JsonMembers(s, i) ==
    LET k == JsonString(s, i)
        v == IF k # 0 /\ JsonAt(s, k) = 58 THEN JsonValue(s, k + 1) ELSE 0
    IN  IF v = 0 THEN 0
        ELSE IF JsonAt(s, v) = 125 THEN v + 1
        ELSE IF JsonAt(s, v) = 44 THEN JsonMembers(s, v + 1)
        ELSE 0

\* s is exactly one JSON value, nothing before or after it.
IsJsonValue(s) == JsonValue(s, 1) = Len(s) + 1

\* The JSON string decoder (RFC 8259, section 7), over bytes: what a string
\* token stands for.  An unescaped byte stands for itself; \uXXXX stands for
\* the UTF-8 encoding of the code point.

JsonHexValue(c) ==
    IF JsonIsDigit(c) THEN c - 48
    ELSE IF c >= 97 /\ c <= 102 THEN c - 87
    ELSE c - 55

JsonUtf8(cp) ==
    IF cp < 128 THEN <<cp>>
    ELSE IF cp < 2048 THEN <<192 + (cp \div 64), 128 + (cp % 64)>>
    ELSE <<224 + (cp \div 4096), 128 + ((cp \div 64) % 64), 128 + (cp % 64)>>

JsonUnescaped(c) ==
    CASE c = 98  -> 8
      [] c = 102 -> 12
      [] c = 110 -> 10
      [] c = 114 -> 13
      [] c = 116 -> 9
      [] OTHER   -> c                            \* '"', '\\' and '/'

JsonUndecodable == [ok |-> FALSE, bytes |-> <<>>]

\* The characters from index i on, up to the closing quote, which must be the
\* last byte of s; acc is what was decoded before i.
RECURSIVE JsonDecodeChars(_, _, _)
JsonDecodeChars(s, i, acc) ==
    LET c == JsonAt(s, i)
    IN  CASE c = 34 -> IF i = Len(s) THEN [ok |-> TRUE, bytes |-> acc]
                       ELSE JsonUndecodable
          [] c = 92 ->
                IF JsonAt(s, i + 1) \in {34, 92, 47, 98, 102, 110, 114, 116}
                THEN JsonDecodeChars(s, i + 2,
                                     Append(acc, JsonUnescaped(JsonAt(s, i + 1))))
                ELSE IF /\ JsonAt(s, i + 1) = 117
                        /\ \A k \in 2..5 : JsonIsHex(JsonAt(s, i + k))
                     THEN JsonDecodeChars(s, i + 6,
                              acc \o JsonUtf8(4096 * JsonHexValue(s[i + 2])
                                              + 256 * JsonHexValue(s[i + 3])
                                              + 16 * JsonHexValue(s[i + 4])
                                              + JsonHexValue(s[i + 5])))
                     ELSE JsonUndecodable
          [] c < 32 -> JsonUndecodable           \* a control byte, or the end
          [] OTHER  -> JsonDecodeChars(s, i + 1, Append(acc, c))

JsonDecodeString(s) ==
    IF JsonAt(s, 1) = 34 THEN JsonDecodeChars(s, 2, <<>>) ELSE JsonUndecodable

-----------------------------------------------------------------------------
\* The calls the environment makes

\* Capacities of the regions a writer is bound to.
Caps == (0..MaxCap) \cup {DeepCap}

\* A caller's region of the given capacity, untouched.
FreshRegion(capacity) == [i \in 1..capacity |-> FillByte]

\* Object keys: "" and "k".
Keys == {<<>>, <<107>>}

\* Strings given to value(const char *): "a", and "\"" which needs an escape.
CStrings == {<<97>>, <<34>>}

\* Bytes given to value(const char *, size_t), any prefix of which is written:
\* a control byte followed by a zero byte.
ByteStrings == {<<1, 0>>}

\* 32- and 64-bit integers given to the four integer overloads.
SignedVals == {-12}

UnsignedVals == {7}

\* Doubles given to value(float) and value(double), in quarters: 1.75.
FloatVals == {7}

\* Digit counts given to setFloatPrecision.
PrecisionVals == {1}

\* Fragments given to raw(), any prefix of which is written: "1x".
RawFragments == {<<49, 120>>}

\* On a region larger than MaxCap only the container calls, key, value(uint32_t),
\* finalize and reset are issued.
AllCalls == capacity_ <= MaxCap

\* No second writer.
NoTwin == [phase |-> "none"]

\* Names of the calls, as lastOp records them.
OpenOps == {"beginObject", "beginArray"}

CloseOps == {"endObject", "endArray"}

ValueOps == {"valueString", "valueStringLength", "valueBool", "valueInt32",
             "valueUInt32", "valueInt64", "valueUInt64", "valueFloat",
             "valueDouble", "null", "raw"}

NumberOps == {"valueInt32", "valueUInt32", "valueInt64", "valueUInt64",
              "valueFloat", "valueDouble"}

WriteOps == OpenOps \cup CloseOps \cup {"key"} \cup ValueOps

\* The bytes committed: buffer_[0 .. length_).
Committed == SubSeq(buffer_, 1, length_)

Snapshot ==
    [length |-> length_, depth |-> depth_, hasError |-> hasError_,
     floatPrecision |-> floatPrecision_]

\* The writer becomes w; of its frames the state keeps the live ones.
Becomes(w) ==
    /\ buffer_' = w.buffer
    /\ bufNull' = w.bufNull
    /\ capacity_' = w.capacity
    /\ length_' = w.length
    /\ hasError_' = w.hasError
    /\ depth_' = w.depth
    /\ floatPrecision_' = w.floatPrecision
    /\ expectValue_' = w.expectValue
    /\ stack_' = SubSeq(w.stack, 1, w.depth)
    /\ outside' = w.outside

\* The writer becomes r.w and the call returns r.ok.
Returns(op, r) ==
    /\ Becomes(r.w)
    /\ lastOp' = op
    /\ lastRet' = r.ok
    /\ pre' = Snapshot
    /\ out' = NoOut
    /\ usedRaw' = IF op = "reset" THEN FALSE ELSE (usedRaw \/ op = "raw")
    /\ rootWritten' = IF op = "reset" THEN FALSE
                      ELSE (rootWritten \/ (r.ok /\ depth_ = 0 /\ op \in ValueOps \cup OpenOps))
    /\ UNCHANGED twin

\* The calls made so far now describe r.
Describes(r) == ref' = RefFits(r, capacity_')

\* The call was given these bytes to write: a key's or a string's bytes, a
\* number's rendering, a literal, a raw fragment.
Given(bytes) == arg' = bytes

\* JsonBufWriter(buf, capacity): a region of some capacity, or no region.
Init ==
    /\ \E c \in Caps :
          /\ capacity_ = c
          /\ buffer_ = FreshRegion(c)
          /\ bufNull \in (IF c = 0 THEN BOOLEAN ELSE {FALSE})
    /\ length_ = 0
    /\ hasError_ = FALSE
    /\ depth_ = 0
    /\ floatPrecision_ = DEFAULT_FLOAT_PRECISION
    /\ expectValue_ = FALSE
    /\ stack_ = <<>>
    /\ outside = FALSE
    /\ lastOp = "construct"
    /\ lastRet = TRUE
    /\ arg = <<>>
    /\ pre = [length |-> 0, depth |-> 0, hasError |-> FALSE,
              floatPrecision |-> DEFAULT_FLOAT_PRECISION]
    /\ out = NoOut
    /\ usedRaw = FALSE
    /\ rootWritten = FALSE
    /\ ref = RefInit
    /\ twin = NoTwin

\* reset that leaves the float precision as it was set.
ResetTo_KeepPrecision(region, isNull) ==
    Returns("reset",
            R([Self EXCEPT !.buffer = region, !.bufNull = isNull,
                           !.capacity = Len(region), !.length = 0,
                           !.hasError = FALSE, !.depth = 0,
                           !.expectValue = FALSE], TRUE))

\* reset(buf, capacity): binds the region it is given.
ResetTo(region, isNull) == Returns("reset", R(reset(Self, region, isNull), TRUE))

Reset ==
    /\ \/ \E c \in Caps : ResetTo(FreshRegion(c), FALSE) /\ Given(FreshRegion(c))
       \/ ResetTo(<<>>, TRUE) /\ Given(<<>>)
    /\ Describes(RefInit)

SetFloatPrecision ==
    AllCalls /\ \E digits \in PrecisionVals :
        /\ Returns("setFloatPrecision",
                   R(setFloatPrecision(Self, digits), TRUE))
        /\ Describes(ref)
        /\ Given(<<digits>>)

BeginObject ==
    /\ Returns("beginObject", beginObject(Self))
    /\ Describes(RefOpen(ref, TRUE))
    /\ Given(<<123>>)

BeginArray ==
    /\ Returns("beginArray", beginArray(Self))
    /\ Describes(RefOpen(ref, FALSE))
    /\ Given(<<91>>)

EndObject ==
    /\ Returns("endObject", endObject(Self))
    /\ Describes(RefClose(ref, TRUE))
    /\ Given(<<125>>)

EndArray ==
    /\ Returns("endArray", endArray(Self))
    /\ Describes(RefClose(ref, FALSE))
    /\ Given(<<93>>)

Key ==
    \E k \in Keys :
        /\ Returns("key", key(Self, k))
        /\ Describes(RefKey(ref, CStringBytes(k)))
        /\ Given(CStringBytes(k))

ValueString ==
    AllCalls /\ \E str \in CStrings :
        /\ Returns("valueString", valueString(Self, str))
        /\ Describes(RefValue(ref, RefQuote(CStringBytes(str))))
        /\ Given(CStringBytes(str))

ValueStringLength ==
    AllCalls /\ \E str \in ByteStrings : \E n \in 0..Len(str) :
        /\ Returns("valueStringLength", valueStringLength(Self, str, n))
        /\ Describes(RefValue(ref, RefQuote(SubSeq(str, 1, n))))
        /\ Given(SubSeq(str, 1, n))

ValueBool ==
    AllCalls /\ \E b \in BOOLEAN :
        /\ Returns("valueBool", valueBool(Self, b))
        /\ Describes(RefValue(ref, IF b THEN <<116, 114, 117, 101>>
                                         ELSE <<102, 97, 108, 115, 101>>))
        /\ Given(IF b THEN <<116, 114, 117, 101>> ELSE <<102, 97, 108, 115, 101>>)

ValueInt32 ==
    AllCalls /\ \E n \in SignedVals :
        /\ Returns("valueInt32", valueInteger(Self, n))
        /\ Describes(RefValue(ref, renderInteger(n)))
        /\ Given(renderInteger(n))

ValueUInt32 ==
    \E n \in UnsignedVals :
        /\ Returns("valueUInt32", valueInteger(Self, n))
        /\ Describes(RefValue(ref, renderInteger(n)))
        /\ Given(renderInteger(n))

ValueInt64 ==
    AllCalls /\ \E n \in SignedVals :
        /\ Returns("valueInt64", valueInteger(Self, n))
        /\ Describes(RefValue(ref, renderInteger(n)))
        /\ Given(renderInteger(n))

ValueUInt64 ==
    AllCalls /\ \E n \in UnsignedVals :
        /\ Returns("valueUInt64", valueInteger(Self, n))
        /\ Describes(RefValue(ref, renderInteger(n)))
        /\ Given(renderInteger(n))

\* value(float) promotes to double and takes the same path.
ValueFloat ==
    AllCalls /\ \E q \in FloatVals :
        /\ Returns("valueFloat", valueFloat(Self, q))
        /\ Describes(RefValue(ref, renderFloat(floatPrecision_, q)))
        /\ Given(renderFloat(floatPrecision_, q))

ValueDouble ==
    AllCalls /\ \E q \in FloatVals :
        /\ Returns("valueDouble", valueFloat(Self, q))
        /\ Describes(RefValue(ref, renderFloat(floatPrecision_, q)))
        /\ Given(renderFloat(floatPrecision_, q))

Null ==
    /\ AllCalls
    /\ Returns("null", null(Self))
    /\ Describes(RefValue(ref, <<110, 117, 108, 108>>))
    /\ Given(<<110, 117, 108, 108>>)

Raw ==
    AllCalls /\ \E json \in RawFragments : \E n \in 0..Len(json) :
        /\ Returns("raw", raw(Self, json, n))
        /\ Describes(RefDead)
        /\ Given(SubSeq(json, 1, n))

\* finalize(output, length)
Finalize ==
    LET f == finalizeCall(Self)
    IN  /\ Becomes(f.w)
        /\ lastOp' = "finalize"
        /\ lastRet' = f.ok
        /\ pre' = Snapshot
        /\ out' = f.out
        /\ Given(<<>>)
        /\ UNCHANGED <<usedRaw, rootWritten, ref, twin>>

Next ==
    \/ Reset
    \/ SetFloatPrecision
    \/ BeginObject
    \/ BeginArray
    \/ EndObject
    \/ EndArray
    \/ Key
    \/ ValueString
    \/ ValueStringLength
    \/ ValueBool
    \/ ValueInt32
    \/ ValueUInt32
    \/ ValueInt64
    \/ ValueUInt64
    \/ ValueFloat
    \/ ValueDouble
    \/ Null
    \/ Raw
    \/ Finalize

Spec == Init /\ [][Next]_vars

-----------------------------------------------------------------------------
\* String escaping over all byte values: a caller that holds one byte string
\* (arg) and passes it to the string overloads of value() and to key(), on a
\* region with room for it.  The caller writes the string as the root value,
\* or opens an object and writes it as a key, any number of times.

\* Longest byte string passed.
MaxStrLen == 2

\* The bytes strings of more than one byte are made of: the zero byte, the five
\* controls with a short escape, other controls, space, '"', '/', '\\', 'u',
\* DEL and bytes with the top bit set.
EscAlphabet == {0, 1, 8, 9, 10, 12, 13, 31, 32, 34, 47, 92, 117, 127, 128, 255}

\* Room for "{", for a key of MaxStrLen \u00XX escapes in quotes with its
\* colon, and for the comma and the quotes of a second one.
EscCap == 6 * MaxStrLen + 7

\* The empty string, every single byte, and the strings over EscAlphabet of
\* 2 to MaxStrLen bytes.
EscInputs ==
    {<<>>} \cup {<<c>> : c \in 0..255}
           \cup UNION {[1..n -> EscAlphabet] : n \in 2..MaxStrLen}

\* JsonBufWriter(buf, EscCap), and the string the caller holds.
EscInit ==
    /\ capacity_ = EscCap
    /\ buffer_ = FreshRegion(EscCap)
    /\ bufNull = FALSE
    /\ length_ = 0
    /\ hasError_ = FALSE
    /\ depth_ = 0
    /\ floatPrecision_ = DEFAULT_FLOAT_PRECISION
    /\ expectValue_ = FALSE
    /\ stack_ = <<>>
    /\ outside = FALSE
    /\ lastOp = "construct"
    /\ lastRet = TRUE
    /\ arg \in EscInputs
    /\ pre = [length |-> 0, depth |-> 0, hasError |-> FALSE,
              floatPrecision |-> DEFAULT_FLOAT_PRECISION]
    /\ out = NoOut
    /\ usedRaw = FALSE
    /\ rootWritten = FALSE
    /\ ref = RefInit
    /\ twin = NoTwin

\* Nothing was written yet.
EscFresh == lastOp = "construct"

\* value(str): arg, followed by its terminating zero byte.
EscValueString ==
    /\ EscFresh
    /\ Returns("valueString", valueString(Self, arg))
    /\ Describes(RefValue(ref, RefQuote(CStringBytes(arg))))
    /\ UNCHANGED arg

\* value(str, length): all of arg.
EscValueStringLength ==
    /\ EscFresh
    /\ Returns("valueStringLength", valueStringLength(Self, arg, Len(arg)))
    /\ Describes(RefValue(ref, RefQuote(arg)))
    /\ UNCHANGED arg

EscBeginObject ==
    /\ EscFresh
    /\ Returns("beginObject", beginObject(Self))
    /\ Describes(RefOpen(ref, TRUE))
    /\ UNCHANGED arg

\* key(str): arg, followed by its terminating zero byte.
EscKey ==
    /\ Returns("key", key(Self, arg))
    /\ Describes(RefKey(ref, CStringBytes(arg)))
    /\ UNCHANGED arg

EscNext ==
    \/ EscValueString
    \/ EscValueStringLength
    \/ EscBeginObject
    \/ EscKey

EscSpec == EscInit /\ [][EscNext]_vars

-----------------------------------------------------------------------------
\* Float precision over all digit counts: a caller that, on a writer just
\* constructed or reset, sets any precision a uint8_t can ask for, then writes
\* doubles, on a region of MaxCap bytes, resetting to the same kind of region
\* in between.

PrecInit ==
    /\ capacity_ = MaxCap
    /\ buffer_ = FreshRegion(MaxCap)
    /\ bufNull = FALSE
    /\ length_ = 0
    /\ hasError_ = FALSE
    /\ depth_ = 0
    /\ floatPrecision_ = DEFAULT_FLOAT_PRECISION
    /\ expectValue_ = FALSE
    /\ stack_ = <<>>
    /\ outside = FALSE
    /\ lastOp = "construct"
    /\ lastRet = TRUE
    /\ arg = <<>>
    /\ pre = [length |-> 0, depth |-> 0, hasError |-> FALSE,
              floatPrecision |-> DEFAULT_FLOAT_PRECISION]
    /\ out = NoOut
    /\ usedRaw = FALSE
    /\ rootWritten = FALSE
    /\ ref = RefInit
    /\ twin = NoTwin

PrecSetFloatPrecision ==
    \E digits \in 0..UINT8_MAX :
        /\ lastOp \in {"construct", "reset"}
        /\ Returns("setFloatPrecision",
                   R(setFloatPrecision(Self, digits), TRUE))
        /\ Describes(ref)
        /\ Given(<<digits>>)

PrecValueDouble ==
    \E q \in FloatVals :
        /\ Returns("valueDouble", valueFloat(Self, q))
        /\ Describes(RefValue(ref, renderFloat(floatPrecision_, q)))
        /\ Given(renderFloat(floatPrecision_, q))

PrecReset ==
    /\ ResetTo(FreshRegion(MaxCap), FALSE)
    /\ Given(FreshRegion(MaxCap))
    /\ Describes(RefInit)

PrecNext ==
    \/ PrecSetFloatPrecision
    \/ PrecValueDouble
    \/ PrecReset

PrecSpec == PrecInit /\ [][PrecNext]_vars

-----------------------------------------------------------------------------
\* Append lengths over the range of size_t: a caller that opens and closes
\* arrays and passes raw() a fragment with any length, lengths near the
\* largest size_t included.  Past the fragment's own bytes the loop reads
\* whatever memory follows it.  Once a byte has been stored past the region
\* the behaviour of the program is undefined: what the call returns is then
\* any boolean, and no further call is modelled.

\* Lengths passed to raw().
WrapLengths == {0, 1, 2, SizeMod - 2, SizeMod - 1}

\* The byte the memory after the fragment holds.
WrapJunk == {0, FillByte}

\* What the copy loop reads through json for n bytes.
WrapView(json, junk, n) ==
    [k \in 1..n |-> IF k <= Len(json) THEN json[k] ELSE junk]

WrapInit ==
    /\ \E c \in 1..MaxCap :
          /\ capacity_ = c
          /\ buffer_ = FreshRegion(c)
    /\ bufNull = FALSE
    /\ length_ = 0
    /\ hasError_ = FALSE
    /\ depth_ = 0
    /\ floatPrecision_ = DEFAULT_FLOAT_PRECISION
    /\ expectValue_ = FALSE
    /\ stack_ = <<>>
    /\ outside = FALSE
    /\ lastOp = "construct"
    /\ lastRet = TRUE
    /\ arg = <<>>
    /\ pre = [length |-> 0, depth |-> 0, hasError |-> FALSE,
              floatPrecision |-> DEFAULT_FLOAT_PRECISION]
    /\ out = NoOut
    /\ usedRaw = FALSE
    /\ rootWritten = FALSE
    /\ ref = RefInit
    /\ twin = NoTwin

WrapBeginArray ==
    /\ ~outside
    /\ Returns("beginArray", beginArray(Self))
    /\ Describes(RefOpen(ref, FALSE))
    /\ Given(<<91>>)

WrapEndArray ==
    /\ ~outside
    /\ Returns("endArray", endArray(Self))
    /\ Describes(RefClose(ref, FALSE))
    /\ Given(<<93>>)

WrapRaw ==
    /\ ~outside
    /\ \E json \in RawFragments, n \in WrapLengths, junk \in WrapJunk :
          LET r == raw(Self, WrapView(json, junk, n), n)
          IN  \E ret \in (IF r.w.outside THEN BOOLEAN ELSE {r.ok}) :
                  /\ Returns("raw", R(r.w, ret))
                  /\ Describes(RefDead)
                  /\ Given(WrapView(json, junk, n))

WrapNext ==
    \/ WrapBeginArray
    \/ WrapEndArray
    \/ WrapRaw

WrapSpec == WrapInit /\ [][WrapNext]_vars

-----------------------------------------------------------------------------
\* The nesting limit with room to spare: a caller that opens containers and
\* writes value(uint32_t) elements, on a region with room for MAX_DEPTH
\* opening tokens, one element, and the comma and token of one more open.

DeepRoom == MAX_DEPTH + 3

DeepInit ==
    /\ capacity_ = DeepRoom
    /\ buffer_ = FreshRegion(DeepRoom)
    /\ bufNull = FALSE
    /\ length_ = 0
    /\ hasError_ = FALSE
    /\ depth_ = 0
    /\ floatPrecision_ = DEFAULT_FLOAT_PRECISION
    /\ expectValue_ = FALSE
    /\ stack_ = <<>>
    /\ outside = FALSE
    /\ lastOp = "construct"
    /\ lastRet = TRUE
    /\ arg = <<>>
    /\ pre = [length |-> 0, depth |-> 0, hasError |-> FALSE,
              floatPrecision |-> DEFAULT_FLOAT_PRECISION]
    /\ out = NoOut
    /\ usedRaw = FALSE
    /\ rootWritten = FALSE
    /\ ref = RefInit
    /\ twin = NoTwin

DeepBeginObject ==
    /\ Returns("beginObject", beginObject(Self))
    /\ Describes(RefOpen(ref, TRUE))
    /\ Given(<<123>>)

DeepBeginArray ==
    /\ Returns("beginArray", beginArray(Self))
    /\ Describes(RefOpen(ref, FALSE))
    /\ Given(<<91>>)

DeepValueUInt32 ==
    \E n \in UnsignedVals :
        /\ Returns("valueUInt32", valueInteger(Self, n))
        /\ Describes(RefValue(ref, renderInteger(n)))
        /\ Given(renderInteger(n))

DeepNext ==
    \/ DeepBeginObject
    \/ DeepBeginArray
    \/ DeepValueUInt32

DeepSpec == DeepInit /\ [][DeepNext]_vars

-----------------------------------------------------------------------------
\* Reset against construction.  A writer (twin.w, a writer record: it keeps
\* the frames its closes and its reset abandon) is given some calls, then
\* reset on the region it is bound to; at that moment a second writer (the
\* state variables) is constructed on a region of the same capacity holding
\* the same bytes.  From then on every call is made on both.

RstCap == MaxCap

\* JsonBufWriter(buf, capacity): no frame has been stored.
construct(region, isNull) ==
    [buffer |-> region, bufNull |-> isNull, capacity |-> Len(region),
     length |-> 0, hasError |-> FALSE, depth |-> 0,
     floatPrecision |-> DEFAULT_FLOAT_PRECISION, expectValue |-> FALSE,
     stack |-> <<>>, outside |-> FALSE]

RstInit ==
    /\ capacity_ = RstCap
    /\ buffer_ = FreshRegion(RstCap)
    /\ bufNull = FALSE
    /\ length_ = 0
    /\ hasError_ = FALSE
    /\ depth_ = 0
    /\ floatPrecision_ = DEFAULT_FLOAT_PRECISION
    /\ expectValue_ = FALSE
    /\ stack_ = <<>>
    /\ outside = FALSE
    /\ lastOp = "construct"
    /\ lastRet = TRUE
    /\ arg = <<>>
    /\ pre = [length |-> 0, depth |-> 0, hasError |-> FALSE,
              floatPrecision |-> DEFAULT_FLOAT_PRECISION]
    /\ out = NoOut
    /\ usedRaw = FALSE
    /\ rootWritten = FALSE
    /\ ref = RefInit
    /\ twin = [phase |-> "history",
               w |-> construct(FreshRegion(RstCap), FALSE),
               ret |-> TRUE, out |-> NoOut,
               before |-> [hasError |-> FALSE, depth |-> 0, length |-> 0]]

\* A call: on the first writer alone before its reset, on both after.
RstCall(op, rTwin, rSelf, outTwin, outSelf) ==
    /\ twin' = [twin EXCEPT !.w = rTwin.w, !.ret = rTwin.ok, !.out = outTwin]
    /\ IF twin.phase = "lockstep"
       THEN /\ Becomes(rSelf.w)
            /\ lastOp' = op
            /\ lastRet' = rSelf.ok
            /\ pre' = Snapshot
            /\ out' = outSelf
       ELSE UNCHANGED <<buffer_, bufNull, capacity_, length_, hasError_,
                        depth_, floatPrecision_, expectValue_, stack_,
                        outside, lastOp, lastRet, pre, out>>
    /\ UNCHANGED <<arg, usedRaw, rootWritten, ref>>

\* reset(buf, capacity) of the first writer on its own region, and the
\* construction of the second on the same bytes.
RstReset ==
    /\ twin.phase = "history"
    /\ twin' = [phase |-> "lockstep",
                w |-> reset(twin.w, twin.w.buffer, FALSE),
                ret |-> TRUE, out |-> NoOut,
                before |-> [hasError |-> twin.w.hasError,
                            depth |-> twin.w.depth,
                            length |-> twin.w.length]]
    /\ Becomes(construct(twin.w.buffer, FALSE))
    /\ lastOp' = "reset"
    /\ lastRet' = TRUE
    /\ pre' = Snapshot
    /\ out' = NoOut
    /\ UNCHANGED <<arg, usedRaw, rootWritten, ref>>

RstSetFloatPrecision ==
    /\ twin.phase = "history"
    /\ \E digits \in PrecisionVals :
          RstCall("setFloatPrecision",
                  R(setFloatPrecision(twin.w, digits), TRUE),
                  R(setFloatPrecision(Self, digits), TRUE), NoOut, NoOut)

RstBeginObject ==
    RstCall("beginObject", beginObject(twin.w), beginObject(Self), NoOut, NoOut)

RstBeginArray ==
    RstCall("beginArray", beginArray(twin.w), beginArray(Self), NoOut, NoOut)

RstEndObject ==
    RstCall("endObject", endObject(twin.w), endObject(Self), NoOut, NoOut)

RstEndArray ==
    RstCall("endArray", endArray(twin.w), endArray(Self), NoOut, NoOut)

RstKey ==
    RstCall("key", key(twin.w, <<>>), key(Self, <<>>), NoOut, NoOut)

RstValueUInt32 ==
    \E n \in UnsignedVals :
        RstCall("valueUInt32", valueInteger(twin.w, n), valueInteger(Self, n),
                NoOut, NoOut)

RstValueDouble ==
    \E q \in FloatVals :
        RstCall("valueDouble", valueFloat(twin.w, q), valueFloat(Self, q),
                NoOut, NoOut)

RstFinalize ==
    /\ twin.phase = "lockstep"
    /\ LET fTwin == finalizeCall(twin.w)
           fSelf == finalizeCall(Self)
       IN  RstCall("finalize", R(fTwin.w, fTwin.ok), R(fSelf.w, fSelf.ok),
                   fTwin.out, fSelf.out)

RstNext ==
    \/ RstReset
    \/ RstSetFloatPrecision
    \/ RstBeginObject
    \/ RstBeginArray
    \/ RstEndObject
    \/ RstEndArray
    \/ RstKey
    \/ RstValueUInt32
    \/ RstValueDouble
    \/ RstFinalize

RstSpec == RstInit /\ [][RstNext]_vars

-----------------------------------------------------------------------------
\* Properties

\* C1: in every reachable state, for every capacity including 0, size() is at
\* most the capacity (and the region bound has capacity_ bytes).
C1_LengthWithinCapacity ==
    /\ length_ <= capacity_
    /\ Len(buffer_) = capacity_

\* A full, non-empty region on which a further write was just refused.
C1_Witness ==
    /\ capacity_ > 0
    /\ length_ = capacity_
    /\ pre.length = capacity_
    /\ ~pre.hasError
    /\ lastOp \in WriteOps
    /\ ~lastRet

\* C2: the latch is sticky.  A write call that returns failure leaves the
\* latch set; and from a latched state every call but reset leaves it set,
\* and every write call and finalize returns failure.
C2_StickyLatch ==
    [][/\ (lastOp' \in WriteOps /\ ~lastRet') => hasError_'
       /\ (hasError_ /\ lastOp' # "reset") =>
             /\ hasError_'
             /\ (lastOp' \in WriteOps \cup {"finalize"}) => ~lastRet']_vars

\* A writer already latched before the call, with nothing open, on which
\* finalize was just refused: the latch alone refuses it.
C2_Witness ==
    /\ hasError_
    /\ pre.hasError
    /\ depth_ = 0
    /\ lastOp = "finalize"
    /\ ~lastRet

\* C3: a write call made while the latch is set returns failure and leaves
\* length, depth, the frames and the bytes of the region as they were.
C3_LatchedCallIsNoOp ==
    [][(hasError_ /\ lastOp' \in WriteOps) =>
          /\ ~lastRet'
          /\ length_' = length_
          /\ depth_' = depth_
          /\ stack_' = stack_
          /\ buffer_' = buffer_]_vars

\* A value call refused by the latch, in an open array with bytes committed
\* and room left for the value.
C3_Witness ==
    /\ pre.hasError
    /\ hasError_
    /\ lastOp = "valueUInt32"
    /\ ~lastRet
    /\ depth_ > 0
    /\ ~stack_[depth_].isObject
    /\ length_ > 0
    /\ length_ + 2 <= capacity_

\* C4: a structurally well-formed call sequence (ref.wf: matched opens and
\* closes, keys only directly inside objects and each followed by its value,
\* one root value, at most MAX_DEPTH nested) that is complete, on a region
\* large enough for its text: every call succeeded, finalize succeeds, and
\* the committed bytes are the whitespace-free JSON text of the structure.
C4_WellFormedGivesJsonText ==
    (ref.wf /\ ref.done /\ Len(ref.text) <= capacity_) =>
        /\ ~hasError_
        /\ finalize(Self)
        /\ Committed = ref.text

\* C5: whenever finalize succeeds after calls that did not use raw(), the
\* exposed bytes are exactly one syntactically valid JSON value.
C5_FinalizedIsJson ==
    (lastOp = "finalize" /\ lastRet /\ ~usedRaw) => IsJsonValue(Committed)

\* C6: a value (any overload), null, raw or container open made directly
\* inside an object that has no key pending returns failure and latches.
C6_ValueWhereKeyExpectedFails ==
    [][(/\ ~hasError_
        /\ inObject(Self)
        /\ ~currentFrame(Self).expectValue
        /\ lastOp' \in ValueOps \cup OpenOps) =>
          (~lastRet' /\ hasError_')]_vars

\* C7: right after a successful key(), a second key() or an endObject() is
\* rejected: it returns failure and latches.
C7_KeyMustBeFollowedByValue ==
    [][(lastOp = "key" /\ lastRet /\ lastOp' \in {"key", "endObject"}) =>
          (~lastRet' /\ hasError_')]_vars

\* C8: once one value (any overload, null, raw of any length) or one container
\* open has succeeded at the root, every further value, null, raw or container
\* open made at depth 0 returns failure and latches.
C8_SingleRootValue ==
    [][(rootWritten /\ depth_ = 0 /\ lastOp' \in ValueOps \cup OpenOps) =>
          (~lastRet' /\ hasError_')]_vars

\* C9: depth stays within 0..MAX_DEPTH.  A container open made with MAX_DEPTH
\* containers open fails, latches and pushes no frame (the MAX_DEPTH open
\* containers stay the ones they were); with fewer open, no
\* latch, a root still empty and room for the separator due and the opening
\* token, it succeeds and depth grows by one.
C9_DepthRange == depth_ \in 0..MAX_DEPTH /\ Len(stack_) = depth_

C9_SeparatorDue ==
    /\ inAnyContainer(Self)
    /\ ~currentFrame(Self).isFirst
    /\ currentFrame(Self).isObject => ~currentFrame(Self).expectValue

C9_Step ==
    lastOp' \in OpenOps =>
        /\ depth_ = MAX_DEPTH =>
              /\ ~lastRet'
              /\ hasError_'
              /\ depth_' = MAX_DEPTH
              /\ Len(stack_') = MAX_DEPTH
              /\ \A i \in 1..MAX_DEPTH : stack_'[i].isObject = stack_[i].isObject
        /\ (/\ depth_ < MAX_DEPTH
            /\ ~hasError_
            /\ depth_ = 0 => length_ = 0
            /\ length_ + 1 + (IF C9_SeparatorDue THEN 1 ELSE 0) <= capacity_) =>
              (lastRet' /\ ~hasError_' /\ depth_' = depth_ + 1)

C9_DepthBounded == []C9_DepthRange /\ [][C9_Step]_vars

\* The ninth nested open, refused by the depth limit alone: the writer was
\* not latched and the region had room for the token.
C9_Witness ==
    /\ lastOp \in OpenOps
    /\ ~lastRet
    /\ ~pre.hasError
    /\ pre.depth = MAX_DEPTH
    /\ pre.length < capacity_
    /\ depth_ = MAX_DEPTH
    /\ hasError_

\* C10: endObject/endArray succeeds only on an unlatched writer whose innermost
\* open container is of the requested kind; it then appends the one closing
\* byte and lowers depth by one.  Otherwise it returns failure and latches,
\* with depth and length unchanged.
C10_Step ==
    lastOp' \in CloseOps =>
        IF lastRet'
        THEN /\ ~hasError_
             /\ inAnyContainer(Self)
             /\ currentFrame(Self).isObject = (lastOp' = "endObject")
             /\ length_' = length_ + 1
             /\ SubSeq(buffer_', 1, length_) = Committed
             /\ buffer_'[length_'] = (IF lastOp' = "endObject" THEN 125 ELSE 93)
             /\ depth_' = depth_ - 1
             /\ ~hasError_'
        ELSE /\ hasError_'
             /\ depth_' = depth_
             /\ length_' = length_

C10_CloseMatchesKind == [][C10_Step]_vars

\* endArray refused on an unlatched writer whose innermost container is an
\* object, the region having room for the token.
C10_Witness ==
    /\ lastOp = "endArray"
    /\ ~lastRet
    /\ ~pre.hasError
    /\ hasError_
    /\ depth_ > 0
    /\ stack_[depth_].isObject
    /\ length_ = pre.length
    /\ length_ < capacity_

\* C11: key() is permitted only directly inside an object.  Called with nothing
\* open (at root) or with an array innermost, it returns failure, latches the
\* error and commits no bytes: size() and the bytes of the region stay as
\* they were.
C11_KeyOnlyInObject ==
    [][(lastOp' = "key" /\ ~inObject(Self)) =>
          /\ ~lastRet'
          /\ hasError_'
          /\ length_' = length_
          /\ buffer_' = buffer_]_vars

\* key("k") refused on an unlatched writer whose innermost container is an
\* array, the region having room for the whole "k": token.
C11_Witness ==
    /\ lastOp = "key"
    /\ arg = <<107>>
    /\ ~lastRet
    /\ ~pre.hasError
    /\ hasError_
    /\ depth_ > 0
    /\ ~stack_[depth_].isObject
    /\ length_ + 4 <= capacity_

\* C12: finalize succeeds exactly when the latch is clear and nothing is open;
\* when it succeeds, the pointer it reports is the start of the bound region
\* and the length it reports is size().
C12_FinalizeIffClosedAndOk ==
    [][lastOp' = "finalize" =>
          /\ lastRet' <=> (~hasError_ /\ depth_ = 0)
          /\ lastRet' =>
                /\ out'.set
                /\ out'.output = [null |-> bufNull', offset |-> 0]
                /\ out'.length = size(Self)']_vars

\* A successful finalize of a closed, non-empty document on a region larger
\* than the document.
C12_Witness ==
    /\ lastOp = "finalize"
    /\ lastRet
    /\ out.set
    /\ out.length = length_
    /\ length_ > 1
    /\ length_ < capacity_
    /\ rootWritten

\* The call about to be made is allowed where it is made by every test the
\* writer applies to its state: a key directly inside an object, a close of
\* the innermost container by its own kind, a value or a container open not
\* after a root value already written, a container open below the nesting
\* limit.  On an unlatched writer such a call can only fail for lack of room.
C13_ContextAllows(op) ==
    /\ op = "key" => inObject(Self)
    /\ op \in CloseOps =>
          (inAnyContainer(Self) /\ currentFrame(Self).isObject = (op = "endObject"))
    /\ op \in ValueOps \cup OpenOps => (depth_ = 0 => length_ = 0)
    /\ op \in OpenOps => depth_ < MAX_DEPTH

\* C13: a key, value, null, raw or container open/close call that fails because
\* the capacity would be exceeded commits nothing of its token: size() after
\* the failed call is size() before it, and the error is latched.
C13_NoPartialWrite ==
    [][(/\ lastOp' \in WriteOps
        /\ ~hasError_
        /\ C13_ContextAllows(lastOp')
        /\ ~lastRet') =>
          (length_' = length_ /\ hasError_')]_vars

\* C14: integer and float writes are all-or-nothing and exact.  On an unlatched
\* writer whose root is still empty, with r the room left after the separator
\* due and n the length of the rendering (arg'): if n > r the call fails,
\* latches and size() stays; if n <= r, n = r included, the call succeeds and
\* the n bytes it commits are the rendered digits, no digit cut and no
\* terminator among them.
C14_Step ==
    (lastOp' \in NumberOps /\ ~hasError_ /\ (depth_ = 0 => length_ = 0)) =>
        LET start == length_ + (IF C9_SeparatorDue THEN 1 ELSE 0)
            r     == capacity_ - start
            n     == Len(arg')
        IN  IF n > r
            THEN ~lastRet' /\ hasError_' /\ length_' = length_
            ELSE /\ lastRet'
                 /\ ~hasError_'
                 /\ length_' = start + n
                 /\ SubSeq(buffer_', start + 1, start + n) = arg'

C14_NumbersExactOrNothing == [][C14_Step]_vars

\* C15: after every call on the bound region, successful or failed, every byte
\* of the region at an index >= the resulting size() is what it was before
\* the call.
C15_BytesBeyondSizeUntouched ==
    [][lastOp' # "reset" =>
          \A i \in (length_' + 1)..capacity_ : buffer_'[i] = buffer_[i]]_vars

\* C16: reset, in whatever state it is called, leaves size() = 0, ok() true,
\* depth 0 (no frame live) and the default float precision, the writer being
\* bound to the region (arg') and capacity it was given.
C16_ResetRestores ==
    [][lastOp' = "reset" =>
          /\ size(Self)' = 0
          /\ ok(Self)'
          /\ depth_' = 0
          /\ stack_' = <<>>
          /\ floatPrecision_' = DEFAULT_FLOAT_PRECISION
          /\ buffer_' = arg'
          /\ capacity_' = Len(arg')]_vars

\* reset just called on a latched writer with containers open, bytes
\* committed and a float precision other than the default, binding a region
\* of another capacity.
C16_Witness ==
    /\ lastOp = "reset"
    /\ pre.hasError
    /\ pre.depth > 1
    /\ pre.length > pre.depth
    /\ pre.floatPrecision # DEFAULT_FLOAT_PRECISION
    /\ capacity_ > 0
    /\ capacity_ < pre.length
    /\ length_ = 0
    /\ ~hasError_

\* C17: comma insertion.  While the calls made are well formed (ref.wf), the
\* committed bytes are as long as the reference text and hold a comma exactly
\* where it does; the reference text (RefAppendMember, RefKey, RefClose) has
\* one comma between two consecutive siblings of a container, before the key
\* in an object, none before the first sibling, none before a closing token
\* and none between a key's colon and its value, a sibling being a scalar or
\* a nested container.
C17_CommasBetweenSiblings ==
    ref.wf =>
        /\ ~hasError_
        /\ length_ = Len(ref.text)
        /\ \A i \in 1..length_ : (buffer_[i] = 44) <=> (ref.text[i] = 44)

\* [{"":7},[ committed: an array whose first element is a nested object with
\* one pair and whose second element, a nested array just opened, follows it
\* after one comma.
C17_Witness ==
    /\ ref.wf
    /\ Committed = <<91, 123, 34, 34, 58, 55, 125, 44, 91>>

\* The bytes the last string call was to write: all of arg for the overload
\* with a length, those before the first zero byte for value(str) and key().
C18_Bytes == IF lastOp = "valueStringLength" THEN arg ELSE CStringBytes(arg)

\* C18: escaping follows the table byte by byte, for both string overloads of
\* value() and for key().  What a successful call commits is, after the comma
\* due if any, one quote, then for each byte in turn its entry of the table
\* (RefEscape: \" for '"', \\ for '\', \b \f \n \r \t for 0x08 0x0C 0x0A 0x0D
\* 0x09, \u00XX in lowercase hex for every other byte below 0x20, the byte
\* itself for 0x20..0xFF), then one quote, and the colon after a key.
C18_EscapeTable ==
    (lastOp \in {"valueString", "valueStringLength", "key"} /\ lastRet) =>
        LET token == RefQuote(C18_Bytes) \o (IF lastOp = "key" THEN <<58>> ELSE <<>>)
            start == length_ - Len(token)
        IN  /\ start \in {pre.length, pre.length + 1}
            /\ start = pre.length + 1 => buffer_[start] = 44
            /\ SubSeq(buffer_, start + 1, length_) = token

\* A key of the bytes 0x1F and '"' accepted: {"\u001f\"": committed.
C18_Witness ==
    /\ lastOp = "key"
    /\ lastRet
    /\ arg = <<31, 34>>
    /\ Committed = <<123, 34, 92, 117, 48, 48, 49, 102, 92, 34, 34, 58>>

\* C19: for every byte string written as the root value with
\* value(str, length), decoding the committed JSON string with the JSON string
\* decoder gives back exactly the bytes passed (so no two byte strings are
\* written alike).
C19_EscapeRoundTrip ==
    (lastOp = "valueStringLength" /\ lastRet) =>
        JsonDecodeString(Committed) = [ok |-> TRUE, bytes |-> arg]

\* The zero byte followed by a backslash, written as "\u0000\\".
C19_Witness ==
    /\ lastOp = "valueStringLength"
    /\ lastRet
    /\ arg = <<0, 92>>
    /\ Committed = <<34, 92, 117, 48, 48, 48, 48, 92, 92, 34>>

\* C20: finalize never changes the writer, whether it succeeds or fails:
\* length, depth, frames, float precision, the latch (ok() before and after)
\* and the bound region with its bytes stay as they were, so a finalize
\* refused only for open containers does not latch; and a finalize right
\* after a finalize returns what the first returned.
C20_FinalizeChangesNothing ==
    [][lastOp' = "finalize" =>
          /\ UNCHANGED <<length_, depth_, stack_, floatPrecision_, hasError_,
                         expectValue_, buffer_, bufNull, capacity_>>
          /\ ok(Self)' = ok(Self)
          /\ lastOp = "finalize" => lastRet' = lastRet]_vars

\* finalize just refused only because containers are open, on a writer with
\* a changed float precision: the latch is still clear and size, depth and
\* precision are what they were.
C20_Witness ==
    /\ lastOp = "finalize"
    /\ ~lastRet
    /\ ~pre.hasError
    /\ ~hasError_
    /\ depth_ > 1
    /\ pre.depth = depth_
    /\ length_ > depth_
    /\ pre.length = length_
    /\ floatPrecision_ # DEFAULT_FLOAT_PRECISION
    /\ pre.floatPrecision = floatPrecision_

\* C21: between two resets the output is append-only.  No call but reset
\* lowers size(), and no call but reset changes a byte at an index below the
\* size() it found; holding over every step, this holds over every run of
\* steps between two resets.
C21_AppendOnly ==
    [][lastOp' # "reset" =>
          /\ length_' >= length_
          /\ SubSeq(buffer_', 1, length_) = Committed]_vars

\* A number refused for lack of room after bytes were committed: the C
\* library wrote into the region, the committed bytes are the size() found.
C21_Witness ==
    /\ lastOp \in NumberOps
    /\ ~lastRet
    /\ ~pre.hasError
    /\ pre.length > 1
    /\ length_ >= pre.length
    /\ length_ < capacity_
    /\ buffer_[length_ + 1] # FillByte

\* C22: setFloatPrecision clamps the digit count asked for to a bounded sane
\* range.  Whatever that range is, it is narrower than what a uint8_t can ask
\* for and leaves out the largest request: after setFloatPrecision(digits),
\* for every digits in 0..255, the stored precision is below UINT8_MAX.
C22_PrecisionClamped ==
    [][lastOp' = "setFloatPrecision" => floatPrecision_' < UINT8_MAX]_vars

\* C23: for every append length N a size_t can hold, those for which the
\* machine sum length + N wraps modulo 2^w included, an append succeeds only
\* if the mathematical sum length + N is at most the capacity (length being
\* size() after the separator due), and so no byte is ever stored at an index
\* >= capacity.
C23_Step ==
    (lastOp' = "raw" /\ lastRet') =>
        length_ + (IF C9_SeparatorDue THEN 1 ELSE 0) + Len(arg') <= capacity_

C23_AppendChecksTrueSum == []~outside /\ [][C23_Step]_vars

\* C24: the frame flags.  In every reachable state, every live frame has
\* expectValue set only if it is an object with isFirst clear (so no array
\* frame has it set); the frame a successful open pushes has isFirst set and
\* expectValue clear; and after a successful close the new top frame, if
\* there is one, has expectValue clear.
C24_FrameFlags ==
    \A i \in 1..depth_ :
        stack_[i].expectValue => (stack_[i].isObject /\ ~stack_[i].isFirst)

C24_Step ==
    /\ (lastOp' \in OpenOps /\ lastRet') =>
           stack_'[depth_'] = Frame(lastOp' = "beginObject", TRUE, FALSE)
    /\ (lastOp' \in CloseOps /\ lastRet' /\ depth_' > 0) =>
           ~stack_'[depth_'].expectValue

C24_FrameFlagInvariant == []C24_FrameFlags /\ [][C24_Step]_vars

\* {"":[] committed: the array written as the value of a key was just closed,
\* and the object, which was waiting for that value, no longer is.
C24_Witness ==
    /\ lastOp = "endArray"
    /\ lastRet
    /\ Committed = <<123, 34, 34, 58, 91, 93>>
    /\ depth_ = 1
    /\ stack_[1] = Frame(TRUE, FALSE, FALSE)

\* C25: for every begin, end, key, value, null and raw call, in every state,
\* the boolean returned is ok() right after the call: false exactly when the
\* latch is set afterwards, never true with the latch left set.
C25_ReturnIsOk ==
    [][lastOp' \in WriteOps => (lastRet' <=> ok(Self)')]_vars

\* value(double) refused on an unlatched writer bound to no region, where
\* formatFloat fails without setting the latch itself.
C25_Witness ==
    /\ lastOp = "valueDouble"
    /\ ~lastRet
    /\ ~pre.hasError
    /\ hasError_
    /\ bufNull

\* C26: openContainer tests the depth after it has appended.  An open called
\* on an unlatched writer with MAX_DEPTH containers open and room for the
\* separator due and the opening token fails and latches with depth
\* unchanged, and size() has grown by the opening byte, and by the comma
\* when one was due: both are committed.
C26_Step ==
    (/\ lastOp' \in OpenOps
     /\ ~hasError_
     /\ depth_ = MAX_DEPTH
     /\ length_ + 1 + (IF C9_SeparatorDue THEN 1 ELSE 0) <= capacity_) =>
        /\ ~lastRet'
        /\ hasError_'
        /\ depth_' = depth_
        /\ length_' = length_ + 1 + (IF C9_SeparatorDue THEN 1 ELSE 0)
        /\ SubSeq(buffer_', 1, length_) = Committed
        /\ C9_SeparatorDue => buffer_'[length_ + 1] = 44
        /\ buffer_'[length_'] = (IF lastOp' = "beginObject" THEN 123 ELSE 91)

C26_FailedOpenCommitsToken == [][C26_Step]_vars

\* The ninth open refused after an element of the eighth container: the
\* comma and the opening token are counted in size().
C26_Witness ==
    /\ lastOp = "beginArray"
    /\ ~lastRet
    /\ hasError_
    /\ ~pre.hasError
    /\ pre.depth = MAX_DEPTH
    /\ depth_ = MAX_DEPTH
    /\ length_ = pre.length + 2
    /\ buffer_[length_ - 1] = 44
    /\ buffer_[length_] = 91

\* C27: a writer that has been reset and a writer constructed on the same
\* region and capacity cannot be told apart: whatever the first was given
\* before its reset (a latched error, frames left in its stack, a precision),
\* every call made on both afterwards returns the same, finalize hands out
\* the same, and both have the same length, depth, latch and committed bytes.
C27_ResetAsFresh ==
    twin.phase = "lockstep" =>
        /\ twin.ret = lastRet
        /\ twin.out = out
        /\ twin.w.capacity = capacity_
        /\ twin.w.length = length_
        /\ twin.w.depth = depth_
        /\ twin.w.hasError = hasError_
        /\ SubSeq(twin.w.buffer, 1, twin.w.length) = Committed

\* Reset with the latch set and two frames stored; then "[7,[" written on
\* both writers, each frame stored over an abandoned one.
C27_Witness ==
    /\ twin.phase = "lockstep"
    /\ twin.before.hasError
    /\ twin.before.depth = 2
    /\ Len(twin.w.stack) = 2
    /\ lastOp = "beginArray"
    /\ lastRet
    /\ twin.ret
    /\ depth_ = 2
    /\ twin.w.stack[2] = Frame(FALSE, TRUE, FALSE)
    /\ Committed = <<91, 55, 44, 91>>

====
